---- MODULE Spec2Model ----
(***************************************************************************)
(* Membership and visibility engine of the fanclub site.                   *)
(*                                                                         *)
(* The repository holds two servers with the same routes: one on sqlite    *)
(* (callbacks, db.run / db.get) and one on supabase (async / await).  A    *)
(* run of the model is a run of one of them (variable backend).  Every     *)
(* SQL statement is one atomic step; a handler is the sequence of its      *)
(* statements, and handlers of different requests interleave between       *)
(* statements.                                                             *)
(***************************************************************************)
EXTENDS Integers, Sequences, FiniteSets, Bags, TLC

\* ---------------------------------------------------------------- bounds
NumUsers == 3
MaxFanclubs == 1
MaxPosts == 1
MaxInFlight == 2
MaxReqs == 3
MaxFaults == 1

\* the fanclubs and posts of the tables the listing is run on
ListedFanclubs == 2
ListedPosts == 3

\* the years the clock of the server is taken from (one of them a leap year)
FirstYear == 2023
LastYear == 2024

Users == 1..NumUsers
FanclubIds == 1..MaxFanclubs

\* req.user / req.query.user_id when the request carries none
Anonymous == 0

Backends == {"sqlite", "supabase"}
Visibilities == {"public", "members"}

\* the sqlite server never issues PRAGMA foreign_keys = ON
SqliteForeignKeys == FALSE

VARIABLES
    backend,      \* which of the two servers runs
    fanclubs,     \* table fanclubs: sequence of rows, id = index (AUTOINCREMENT)
    memberships,  \* table memberships: bag of rows
    posts,        \* table posts: sequence of rows, id = index
    reqs,         \* bag of the requests whose handler has statements left
    resp,         \* the response sent by the last step ({} when it sent none)
    started,      \* number of requests received so far
    faults,       \* storage failures the storage layer may still produce
    now,          \* new Date(): the calendar date of the server's clock
    next_payment_date  \* the Date a join has computed for its row (NoDate: none yet)

vars == <<backend, fanclubs, memberships, posts, reqs, resp, started, faults,
          now, next_payment_date>>
db == <<fanclubs, memberships, posts>>

\* ------------------------------------------------------------- the dates
\* A Date as its local calendar fields: getFullYear(), getMonth() (0 = January)
\* and getDate().
Date(y, m, d) == [year |-> y, month |-> m, date |-> d]

NoDate == Date(0, 0, 0)

IsLeapYear(y) == y % 4 = 0 /\ (y % 100 # 0 \/ y % 400 = 0)

DaysInMonth(y, m) ==
    IF m = 1 THEN (IF IsLeapYear(y) THEN 29 ELSE 28)
    ELSE IF m \in {3, 5, 8, 10} THEN 30
    ELSE 31

Dates ==
    {Date(y, m, d) : y \in FirstYear..LastYear, m \in 0..11, d \in 1..31}
        \ {t \in [year : FirstYear..LastYear, month : 0..11, date : 1..31] :
               t.date > DaysInMonth(t.year, t.month)}

Epoch == Date(FirstYear, 0, 1)

getMonth(t) == t.month

\* MakeDay(year, month, date) of ECMAScript: the day that lies date - 1 days
\* after the first day of the month; a date past the end of the month runs
\* on into the months that follow
RECURSIVE MakeDay(_, _, _)
MakeDay(y, m, d) ==
    IF m > 11 THEN MakeDay(y + 1, m - 12, d)
    ELSE IF d > DaysInMonth(y, m) THEN MakeDay(y, m + 1, d - DaysInMonth(y, m))
    ELSE Date(y, m, d)

\* Date.prototype.setMonth(month): MakeDay(YearFromTime(t), month, DateFromTime(t))
setMonth(t, month) == MakeDay(t.year, month, t.date)

\* ------------------------------------------------------------ the tables
\* the same row with owner_id not taken from the request
FanclubRowUnowned(owner) == [owner_id |-> Anonymous, member_count |-> 1]

\* INSERT INTO fanclubs (..., owner_id) VALUES (..., req.user.id); member_count DEFAULT 1
FanclubRow(owner) == [owner_id |-> owner, member_count |-> 1]

MembershipRow(u, f, o) == [user_id |-> u, fanclub_id |-> f, is_owner |-> o]

\* published_at DEFAULT CURRENT_TIMESTAMP / NOW(), counted in ticks of the
\* database clock from the first post
PostRow(f, u, v, t) ==
    [fanclub_id |-> f, author_id |-> u, visibility |-> v, published_at |-> t]

\* the clock does not run backwards and may not have moved since the last
\* INSERT: the published_at a new row can get
CURRENT_TIMESTAMP(ps) ==
    IF ps = <<>> THEN {1}
    ELSE {ps[Len(ps)].published_at, ps[Len(ps)].published_at + 1}

FanclubExists(fcs, f) == f \in 1..Len(fcs)

\* the same SELECT without its user_id condition
IsMemberOfAnyUser(ms, u, f) ==
    \E r \in BagToSet(ms) : r.fanclub_id = f

\* SELECT * FROM memberships WHERE user_id = ? AND fanclub_id = ?
IsMember(ms, u, f) ==
    \E r \in BagToSet(ms) : r.user_id = u /\ r.fanclub_id = f

\* the same SELECT without its is_owner condition
IsOwnerOrMember(ms, u, f) ==
    \E r \in BagToSet(ms) : r.user_id = u /\ r.fanclub_id = f

\* SELECT * FROM memberships WHERE user_id = ? AND fanclub_id = ? AND is_owner = TRUE
IsOwner(ms, u, f) == BagIn(MembershipRow(u, f, TRUE), ms)

\* number of rows of memberships that reference fanclub f
MemberRows(ms, f) ==
    BagCardinality([r \in {x \in BagToSet(ms) : x.fanclub_id = f} |-> ms[r]])

\* the table without its UNIQUE constraint
NoUniqueConstraint(ms, u, f) == FALSE

\* UNIQUE(user_id, fanclub_id)
UniqueViolation(ms, u, f) ==
    \E o \in BOOLEAN : BagIn(MembershipRow(u, f, o), ms)

\* FOREIGN KEY (fanclub_id) REFERENCES fanclubs (id)
ForeignKeyViolation(b, fcs, f) ==
    /\ ~FanclubExists(fcs, f)
    /\ (b = "supabase" \/ SqliteForeignKeys)

\* INSERT INTO memberships: the constraints that make the statement fail
InsertRejected(b, fcs, ms, u, f) ==
    UniqueViolation(ms, u, f) \/ ForeignKeyViolation(b, fcs, f)

InsertMembership(ms, u, f, o) == ms (+) SetToBag({MembershipRow(u, f, o)})

\* DELETE FROM memberships WHERE user_id = ? AND fanclub_id = ? AND is_owner = FALSE
DeleteChanges(ms, u, f) == CopiesIn(MembershipRow(u, f, FALSE), ms)

\* the same DELETE without its is_owner condition
DeleteAnyMembership(ms, u, f) ==
    [r \in BagToSet(ms) \ {MembershipRow(u, f, FALSE), MembershipRow(u, f, TRUE)} |-> ms[r]]

DeleteMembership(ms, u, f) ==
    [r \in BagToSet(ms) \ {MembershipRow(u, f, FALSE)} |-> ms[r]]

\* UPDATE fanclubs SET member_count = member_count + 1 WHERE id = ?
increment_member_count(fcs, f) ==
    IF FanclubExists(fcs, f)
    THEN [fcs EXCEPT ![f].member_count = @ + 1]
    ELSE fcs

\* sqlite: member_count - 1;  supabase: GREATEST(member_count - 1, 0)
decrement_member_count(b, fcs, f) ==
    IF FanclubExists(fcs, f)
    THEN [fcs EXCEPT ![f].member_count =
              IF b = "sqlite" THEN @ - 1
              ELSE IF @ - 1 > 0 THEN @ - 1 ELSE 0]
    ELSE fcs

\* the rows of memberships for the pair (u, f), whatever their owner flag
Rows(ms, u, f) ==
    CopiesIn(MembershipRow(u, f, TRUE), ms) + CopiesIn(MembershipRow(u, f, FALSE), ms)

\* u holds a Membership in f
Holds(ms, u, f) == Rows(ms, u, f) > 0

\* u holds the owner Membership of f
HoldsOwner(ms, u, f) == CopiesIn(MembershipRow(u, f, TRUE), ms) > 0

\* ---------------------------------------------------------- the requests
\* A request in flight: what the handler has in its closure, the statement
\* it runs next (pc), and history of what happened while it was in flight
\* (changes: the rows its DELETE removed, this.changes).
Request(kind, u, f, pc) ==
    [kind |-> kind, user |-> u, fanclub_id |-> f, pc |-> pc,
     query_user_id |-> Anonymous, visibility |-> "public",
     membership |-> FALSE, wellformed |-> TRUE, changes |-> 0,
     faulted |-> FALSE, rival |-> FALSE, contended |-> FALSE, overlapped |-> FALSE,
     everMember |-> FALSE, alwaysMember |-> FALSE, afterLeave |-> FALSE]

Response(r, outcome, result) == [req |-> r, outcome |-> outcome, posts |-> result]

InFlight == BagToSet(reqs)

\* the Membership rows of the model carry no date: the steps of the handlers
\* leave the clock and the computed date alone
clock == <<now, next_payment_date>>

\* a new request arrives
Receive == started < MaxReqs /\ started' = started + 1 /\ UNCHANGED clock

\* a step of a request received earlier
Continue == UNCHANGED <<started, clock>>

CanStart == BagCardinality(reqs) < MaxInFlight

Add(rs, r) == rs (+) SetToBag({r})

Remove(rs, r) == rs (-) SetToBag({r})

\* history: a list request in flight records whether its viewer held a
\* Membership at some moment, and at every moment, of the request
Observed(r, ms) ==
    IF r.kind = "list"
    THEN [r EXCEPT !.everMember = @ \/ Holds(ms, r.query_user_id, r.fanclub_id),
                   !.alwaysMember = @ /\ Holds(ms, r.query_user_id, r.fanclub_id)]
    ELSE r

Track(rs, ms) == BagOfAll(LAMBDA r : Observed(r, ms), rs)

\* history: a join records whether another join of the same pair was in
\* flight at some moment of the request
SamePairJoin(r, u, f) == r.kind = "join" /\ r.user = u /\ r.fanclub_id = f

Rivals(rs, u, f) ==
    BagOfAll(LAMBDA r : IF SamePairJoin(r, u, f) THEN [r EXCEPT !.rival = TRUE] ELSE r, rs)

\* history: a join or leave records whether another join or leave of the
\* same pair (contended), or of another user and the same fanclub
\* (overlapped), was in flight at some moment of the request
SamePair(r, u, f) == r.kind \in {"join", "leave"} /\ r.user = u /\ r.fanclub_id = f

SameFanclub(r, u, f) == r.kind \in {"join", "leave"} /\ r.user # u /\ r.fanclub_id = f

Contenders(rs, u, f) ==
    BagOfAll(LAMBDA r : IF SamePair(r, u, f) THEN [r EXCEPT !.contended = TRUE]
                        ELSE IF SameFanclub(r, u, f) THEN [r EXCEPT !.overlapped = TRUE]
                        ELSE r, rs)

Contended(r) ==
    [r EXCEPT !.contended = \E r0 \in InFlight : SamePair(r0, r.user, r.fanclub_id),
              !.overlapped = \E r0 \in InFlight : SameFanclub(r0, r.user, r.fanclub_id)]

\* a statement may fail in the storage layer
FaultChoices == IF faults > 0 THEN BOOLEAN ELSE {FALSE}

Inject(fail) == faults' = IF fail THEN faults - 1 ELSE faults

\* ------------------------------------------------------------------ Init
Init ==
    /\ backend \in Backends
    /\ fanclubs = <<>>
    /\ memberships = EmptyBag
    /\ posts = <<>>
    /\ reqs = EmptyBag
    /\ resp = {}
    /\ started = 0
    /\ faults = 0
    /\ now = Epoch
    /\ next_payment_date = NoDate

\* the same server on a storage layer that may fail MaxFaults times
InitFaults ==
    /\ backend \in Backends
    /\ fanclubs = <<>>
    /\ memberships = EmptyBag
    /\ posts = <<>>
    /\ reqs = EmptyBag
    /\ resp = {}
    /\ started = 0
    /\ faults = MaxFaults
    /\ now = Epoch
    /\ next_payment_date = NoDate

\* ---------------------------------------------------- POST /api/fanclubs
\* the same test looking at the name only
NameAbsent(name, purpose) == ~name

\* if (!name || !purpose)
NameOrPurposeAbsent(name, purpose) == ~name \/ ~purpose

\* validation, then INSERT INTO fanclubs
CreateFanclub(u, name, purpose) ==
    /\ Receive
    /\ UNCHANGED <<backend, memberships, posts>>
    /\ LET r == [Request("create", u, Len(fanclubs) + 1, "owner") EXCEPT
                    !.wellformed = name /\ purpose] IN
       IF NameOrPurposeAbsent(name, purpose)
       THEN /\ resp' = {Response(r, "ValidationError", <<>>)}
            /\ UNCHANGED <<fanclubs, reqs, faults>>
       ELSE \E fail \in FaultChoices :
            /\ Inject(fail)
            /\ IF fail
               THEN /\ resp' = {Response([r EXCEPT !.faulted = TRUE], "StorageError", <<>>)}
                    /\ UNCHANGED <<fanclubs, reqs>>
               ELSE /\ Len(fanclubs) < MaxFanclubs
                    /\ CanStart
                    /\ fanclubs' = Append(fanclubs, FanclubRow(u))
                    /\ reqs' = Add(reqs, r)
                    /\ resp' = IF backend = "sqlite"
                               THEN {Response(r, "ok", <<>>)}
                               ELSE {}

\* INSERT INTO memberships (user_id, fanclub_id, is_owner) VALUES (?, ?, TRUE);
\* its error is logged (sqlite) or not looked at (supabase)
CreateOwnerMembership(r) ==
    /\ Continue
    /\ r.kind = "create" /\ r.pc = "owner"
    /\ UNCHANGED <<backend, fanclubs, posts>>
    /\ \E fail \in FaultChoices :
       LET done == ~fail /\ ~InsertRejected(backend, fanclubs, memberships, r.user, r.fanclub_id)
           r2 == [r EXCEPT !.faulted = @ \/ fail, !.pc = "done"]
       IN  /\ Inject(fail)
           /\ memberships' = IF done
                             THEN InsertMembership(memberships, r.user, r.fanclub_id, TRUE)
                             ELSE memberships
           /\ reqs' = Track(Remove(reqs, r), memberships')
           /\ resp' = IF backend = "supabase"
                      THEN {Response(r2, "ok", <<>>)}
                      ELSE {}

\* --------------------------------------------- POST /api/fanclubs/:id/join
\* SELECT the existing membership
JoinFanclub(u, f) ==
    /\ Receive
    /\ UNCHANGED <<backend, db, faults>>
    /\ LET r == Contended(Request("join", u, f, "insert")) IN
       IF IsMember(memberships, u, f)
       THEN /\ resp' = {Response(r, "AlreadyMember", <<>>)}
            /\ reqs' = Contenders(reqs, u, f)
       ELSE /\ CanStart
            /\ reqs' = Add(Contenders(Rivals(reqs, u, f), u, f),
                           [r EXCEPT !.rival = \E r0 \in InFlight : SamePairJoin(r0, u, f)])
            /\ resp' = {}

\* INSERT INTO memberships (user_id, fanclub_id, next_payment_date)
JoinInsert(r) ==
    /\ Continue
    /\ r.kind = "join" /\ r.pc = "insert"
    /\ UNCHANGED <<backend, fanclubs, posts>>
    /\ \E fail \in FaultChoices :
       /\ Inject(fail)
       /\ IF fail \/ InsertRejected(backend, fanclubs, memberships, r.user, r.fanclub_id)
          THEN /\ resp' = {Response([r EXCEPT !.faulted = fail], "StorageError", <<>>)}
               /\ reqs' = Remove(reqs, r)
               /\ UNCHANGED memberships
          ELSE /\ memberships' = InsertMembership(memberships, r.user, r.fanclub_id, FALSE)
               /\ reqs' = Track(Add(Remove(reqs, r), [r EXCEPT !.pc = "count"]), memberships')
               /\ resp' = IF backend = "sqlite"
                          THEN {Response(r, "ok", <<>>)}
                          ELSE {}

\* the same step writing a count read before the INSERT: the update of a
\* join is lost when another join of the fanclub is about to write its own
JoinCountLostUpdate(r) ==
    /\ Continue
    /\ r.kind = "join" /\ r.pc = "count"
    /\ UNCHANGED <<backend, memberships, posts>>
    /\ \E fail \in FaultChoices :
       LET lost == \E r2 \in InFlight :
                       /\ r2 # r
                       /\ r2.kind = "join" /\ r2.pc = "count"
                       /\ r2.fanclub_id = r.fanclub_id
       IN  /\ Inject(fail)
           /\ fanclubs' = IF fail \/ lost THEN fanclubs
                          ELSE increment_member_count(fanclubs, r.fanclub_id)
           /\ reqs' = Remove(reqs, r)
           /\ resp' = IF backend = "supabase"
                      THEN {Response([r EXCEPT !.faulted = fail, !.pc = "done"], "ok", <<>>)}
                      ELSE {}

\* UPDATE fanclubs SET member_count = member_count + 1 / rpc increment_member_count;
\* its error is logged only
JoinCount(r) ==
    /\ Continue
    /\ r.kind = "join" /\ r.pc = "count"
    /\ UNCHANGED <<backend, memberships, posts>>
    /\ \E fail \in FaultChoices :
       /\ Inject(fail)
       /\ fanclubs' = IF fail THEN fanclubs
                      ELSE increment_member_count(fanclubs, r.fanclub_id)
       /\ reqs' = Remove(reqs, r)
       /\ resp' = IF backend = "supabase"
                  THEN {Response([r EXCEPT !.faulted = fail, !.pc = "done"], "ok", <<>>)}
                  ELSE {}

\* ------------------------------------------ DELETE /api/fanclubs/:id/leave
\* DELETE FROM memberships ... AND is_owner = FALSE
LeaveFanclub(u, f) ==
    /\ Receive
    /\ UNCHANGED <<backend, fanclubs, posts>>
    /\ LET r == [Contended(Request("leave", u, f, "count")) EXCEPT
                    !.changes = DeleteChanges(memberships, u, f)] IN
       \E fail \in FaultChoices :
       /\ Inject(fail)
       /\ IF fail
          THEN /\ resp' = {Response([r EXCEPT !.faulted = TRUE], "StorageError", <<>>)}
               /\ reqs' = Contenders(reqs, u, f)
               /\ UNCHANGED memberships
          ELSE IF backend = "sqlite" /\ DeleteChanges(memberships, u, f) = 0
          THEN /\ resp' = {Response(r, "Forbidden", <<>>)}
               /\ reqs' = Contenders(reqs, u, f)
               /\ UNCHANGED memberships
          ELSE /\ CanStart
               /\ memberships' = DeleteMembership(memberships, u, f)
               /\ reqs' = Track(Add(Contenders(reqs, u, f), r), memberships')
               /\ resp' = IF backend = "sqlite"
                          THEN {Response(r, "ok", <<>>)}
                          ELSE {}

\* UPDATE fanclubs SET member_count = member_count - 1 / rpc decrement_member_count;
\* its error is logged only
LeaveCount(r) ==
    /\ Continue
    /\ r.kind = "leave" /\ r.pc = "count"
    /\ UNCHANGED <<backend, memberships, posts>>
    /\ \E fail \in FaultChoices :
       /\ Inject(fail)
       /\ fanclubs' = IF fail THEN fanclubs
                      ELSE decrement_member_count(backend, fanclubs, r.fanclub_id)
       /\ reqs' = Remove(reqs, r)
       /\ resp' = IF backend = "supabase"
                  THEN {Response([r EXCEPT !.faulted = fail, !.pc = "done"], "ok", <<>>)}
                  ELSE {}

\* ------------- GET /api/fanclubs, /api/fanclubs/search, /api/fanclubs/:id
\* ORDER BY f.created_at DESC: the ids of the rows, latest first
LatestFirst(n) == [i \in 1..n |-> n + 1 - i]

\* SELECT f.* FROM fanclubs f ... ORDER BY f.created_at DESC
GetFanclubs ==
    /\ Receive
    /\ UNCHANGED <<backend, db, reqs, faults>>
    /\ resp' = {Response(Request("fanclubs", Anonymous, 0, "done"), "ok",
                          LatestFirst(Len(fanclubs)))}

\* if (!q) 400; SELECT ... WHERE f.name LIKE ? OR ...: the rows whose text
\* matches (matching) in the same order
SearchFanclubs(q, matching) ==
    /\ Receive
    /\ UNCHANGED <<backend, db, reqs, faults>>
    /\ LET r == [Request("search", Anonymous, 0, "done") EXCEPT !.wellformed = q]
           Matches(f) == f \in matching
       IN  resp' = IF ~q
                   THEN {Response(r, "ValidationError", <<>>)}
                   ELSE {Response(r, "ok", SelectSeq(LatestFirst(Len(fanclubs)), Matches))}

\* SELECT f.* FROM fanclubs f ... WHERE f.id = ?
GetFanclub(f) ==
    /\ Receive
    /\ UNCHANGED <<backend, db, reqs, faults>>
    /\ LET r == Request("fanclub", Anonymous, f, "done")
       IN  resp' = IF FanclubExists(fanclubs, f)
                   THEN {Response(r, "ok", <<f>>)}
                   ELSE {Response(r, "NotFound", <<>>)}

\* ------------------------------------------- GET /api/fanclubs/:id/posts
\* the sequences that hold each of the rows ids once
Arrangements(ids) ==
    {result \in [1..Cardinality(ids) -> ids] :
        \A i, j \in 1..Cardinality(ids) : i # j => result[i] # result[j]}

\* the same clause with ASC
OrderByPublishedAtAsc(ps, ids) ==
    {result \in Arrangements(ids) :
        \A i, j \in 1..Len(result) :
            i < j => ps[result[i]].published_at <= ps[result[j]].published_at}

\* ORDER BY p.published_at DESC: the results the clause allows, rows with
\* equal published_at in any order
OrderByPublishedAtDesc(ps, ids) ==
    {result \in Arrangements(ids) :
        \A i, j \in 1..Len(result) :
            i < j => ps[result[i]].published_at >= ps[result[j]].published_at}

\* the same query without its members branch
PublicPosts(ps, f, member) ==
    OrderByPublishedAtDesc(ps,
        {i \in 1..Len(ps) : ps[i].fanclub_id = f /\ ps[i].visibility = "public"})

\* WHERE p.fanclub_id = ? AND (p.visibility = 'public' OR (p.visibility =
\* 'members' AND <member>)) ORDER BY p.published_at DESC: the results the
\* query may return, as sequences of the ids of the selected rows
VisiblePosts(ps, f, member) ==
    OrderByPublishedAtDesc(ps,
        {i \in 1..Len(ps) : /\ ps[i].fanclub_id = f
                            /\ (ps[i].visibility = "public" \/ member)})

\* history: the request is received right after the answer to a leave of
\* the viewer and the fanclub that said success, no join or leave of the
\* pair having been in flight during that leave
AfterLeave(f, q) ==
    \E x \in resp :
        /\ x.req.kind = "leave" /\ x.outcome = "ok"
        /\ x.req.user = q /\ x.req.fanclub_id = f
        /\ ~x.req.contended

ListRequest(f, q) ==
    [Request("list", Anonymous, f, "query") EXCEPT
        !.query_user_id = q,
        !.everMember = Holds(memberships, q, f),
        !.alwaysMember = Holds(memberships, q, f),
        !.afterLeave = AfterLeave(f, q)]

\* sqlite: one SELECT with the membership test as a subquery; supabase
\* without user_id: one select of the public posts
ListPosts(f, q) ==
    /\ Receive
    /\ backend = "sqlite" \/ q = Anonymous
    /\ UNCHANGED <<backend, db, reqs, faults>>
    /\ LET member == q # Anonymous /\ IsMember(memberships, q, f)
       IN  \E result \in VisiblePosts(posts, f, member) :
               resp' = {Response(ListRequest(f, q), "ok", result)}

\* supabase with user_id: first the select on memberships
ListMembership(f, q) ==
    /\ Receive
    /\ backend = "supabase" /\ q # Anonymous
    /\ CanStart
    /\ UNCHANGED <<backend, db, faults>>
    /\ reqs' = Add(reqs, [ListRequest(f, q) EXCEPT !.membership = IsMember(memberships, q, f)])
    /\ resp' = {}

\* supabase with user_id: then the select on posts
ListQuery(r) ==
    /\ Continue
    /\ r.kind = "list" /\ r.pc = "query"
    /\ UNCHANGED <<backend, db, faults>>
    /\ reqs' = Remove(reqs, r)
    /\ \E result \in VisiblePosts(posts, r.fanclub_id, r.membership) :
           resp' = {Response(r, "ok", result)}

\* ------------------------------------------ POST /api/fanclubs/:id/posts
\* the same handler running its INSERT before the owner check
PublishPostUnchecked(u, f, title, content) ==
    /\ Receive
    /\ UNCHANGED <<backend, fanclubs, memberships, faults>>
    /\ LET r == [Request("publish", u, f, "insert") EXCEPT
                    !.wellformed = title /\ content] IN
       IF ~title \/ ~content
       THEN /\ resp' = {Response(r, "ValidationError", <<>>)}
            /\ UNCHANGED <<posts, reqs>>
       ELSE IF ~IsOwner(memberships, u, f)
       THEN /\ Len(posts) < MaxPosts
            /\ posts' = Append(posts, PostRow(f, u, "public", 1))
            /\ resp' = {Response(r, "Forbidden", <<>>)}
            /\ UNCHANGED reqs
       ELSE /\ CanStart
            /\ \E v \in Visibilities : reqs' = Add(reqs, [r EXCEPT !.visibility = v])
            /\ resp' = {}
            /\ UNCHANGED posts

\* validation, then the SELECT of the owner membership; visibility is read
\* by the INSERT only
PublishPost(u, f, title, content) ==
    /\ Receive
    /\ UNCHANGED <<backend, db, faults>>
    /\ LET r == [Request("publish", u, f, "insert") EXCEPT
                    !.wellformed = title /\ content] IN
       IF ~title \/ ~content
       THEN /\ resp' = {Response(r, "ValidationError", <<>>)}
            /\ UNCHANGED reqs
       ELSE IF ~IsOwner(memberships, u, f)
       THEN /\ resp' = {Response(r, "Forbidden", <<>>)}
            /\ UNCHANGED reqs
       ELSE /\ CanStart
            /\ \E v \in Visibilities : reqs' = Add(reqs, [r EXCEPT !.visibility = v])
            /\ resp' = {}

\* INSERT INTO posts
PublishInsert(r) ==
    /\ Continue
    /\ r.kind = "publish" /\ r.pc = "insert"
    /\ UNCHANGED <<backend, fanclubs, memberships>>
    /\ \E fail \in FaultChoices :
       /\ Inject(fail)
       /\ reqs' = Remove(reqs, r)
       /\ IF fail
          THEN /\ resp' = {Response([r EXCEPT !.faulted = TRUE], "StorageError", <<>>)}
               /\ UNCHANGED posts
          ELSE /\ Len(posts) < MaxPosts
               /\ \E t \in CURRENT_TIMESTAMP(posts) :
                      posts' = Append(posts, PostRow(r.fanclub_id, r.user, r.visibility, t))
               /\ resp' = {Response([r EXCEPT !.pc = "done"], "ok", <<>>)}

\* ------------------------------------------------------------------ Next
Next ==
    \/ \E u \in Users, name \in BOOLEAN, purpose \in BOOLEAN : CreateFanclub(u, name, purpose)
    \/ \E r \in InFlight : CreateOwnerMembership(r)
    \/ \E u \in Users, f \in FanclubIds : JoinFanclub(u, f)
    \/ \E r \in InFlight : JoinInsert(r)
    \/ \E r \in InFlight : JoinCount(r)
    \/ \E u \in Users, f \in FanclubIds : LeaveFanclub(u, f)
    \/ \E r \in InFlight : LeaveCount(r)
    \/ \E f \in FanclubIds, q \in Users \cup {Anonymous} : ListPosts(f, q)
    \/ \E f \in FanclubIds, q \in Users : ListMembership(f, q)
    \/ \E r \in InFlight : ListQuery(r)
    \/ \E u \in Users, f \in FanclubIds, title \in BOOLEAN, content \in BOOLEAN :
          PublishPost(u, f, title, content)
    \/ \E r \in InFlight : PublishInsert(r)

Spec == Init /\ [][Next]_vars

SpecFaults == InitFaults /\ [][Next]_vars

\* Clients that only create fanclubs and join them: every join is made by a
\* user who is not the creator of the fanclub, holds no Membership in it and
\* has no other join of it in flight, against a fanclub that exists.
JoinExisting(u, f) ==
    /\ FanclubExists(fanclubs, f)
    /\ fanclubs[f].owner_id # u
    /\ ~Holds(memberships, u, f)
    /\ \A r \in InFlight : ~(r.kind = "join" /\ r.user = u /\ r.fanclub_id = f)
    /\ JoinFanclub(u, f)

NextJoins ==
    \/ \E u \in Users, name \in BOOLEAN, purpose \in BOOLEAN : CreateFanclub(u, name, purpose)
    \/ \E r \in InFlight : CreateOwnerMembership(r)
    \/ \E u \in Users, f \in FanclubIds : JoinExisting(u, f)
    \/ \E r \in InFlight : JoinInsert(r)
    \/ \E r \in InFlight : JoinCount(r)

SpecJoins == Init /\ [][NextJoins]_vars

\* One client that runs one of the two scenarios of the specification on a
\* new server, each request after the answer to the one before and after its
\* handler has run all its statements.  Membership scenario: the creator
\* creates a fanclub, another user joins it and leaves it, then the creator
\* leaves it.  Visibility scenario: the creator creates a fanclub and
\* publishes a members-only post, the posts are read without user_id, another
\* user joins and reads the posts.  The requests of the scenario are the last
\* five the server receives; Step is the number of them received so far.
Step == started - (MaxReqs - 5)

Quiet == reqs = EmptyBag

InitScenario ==
    /\ backend \in Backends
    /\ fanclubs = <<>>
    /\ memberships = EmptyBag
    /\ posts = <<>>
    /\ reqs = EmptyBag
    /\ resp = {}
    /\ started = MaxReqs - 5
    /\ faults = 0
    /\ now = Epoch
    /\ next_payment_date = NoDate

ScenarioCreate(a) ==
    Step = 0 /\ Quiet /\ CreateFanclub(a, TRUE, TRUE)

\* the joiner: a user who is not the creator
ScenarioJoin(b) ==
    /\ Quiet
    /\ (Step = 1 /\ posts = <<>>) \/ (Step = 3 /\ posts # <<>>)
    /\ FanclubExists(fanclubs, 1) /\ fanclubs[1].owner_id # b
    /\ JoinFanclub(b, 1)

ScenarioLeave(b) ==
    /\ Step = 2 /\ Quiet /\ posts = <<>>
    /\ FanclubExists(fanclubs, 1) /\ fanclubs[1].owner_id # b
    /\ Holds(memberships, b, 1)
    /\ LeaveFanclub(b, 1)

ScenarioOwnerLeave(a) ==
    /\ Step = 3 /\ Quiet /\ posts = <<>>
    /\ FanclubExists(fanclubs, 1) /\ fanclubs[1].owner_id = a
    /\ LeaveFanclub(a, 1)

ScenarioPublish(a) ==
    /\ Step = 1 /\ Quiet
    /\ FanclubExists(fanclubs, 1) /\ fanclubs[1].owner_id = a
    /\ PublishPost(a, 1, TRUE, TRUE)
    /\ \A r \in BagToSet(reqs') : r.visibility = "members"

ScenarioAnonymousRead ==
    Step = 2 /\ Quiet /\ posts # <<>> /\ ListPosts(1, Anonymous)

\* the joiner reads the posts: one SELECT (sqlite) or the first of two (supabase)
ScenarioMemberRead(b) ==
    /\ Step = 4 /\ Quiet /\ posts # <<>>
    /\ FanclubExists(fanclubs, 1) /\ fanclubs[1].owner_id # b
    /\ Holds(memberships, b, 1)
    /\ ListPosts(1, b) \/ ListMembership(1, b)

NextScenario ==
    \/ \E a \in Users : ScenarioCreate(a)
    \/ \E r \in InFlight : CreateOwnerMembership(r)
    \/ \E b \in Users : ScenarioJoin(b)
    \/ \E r \in InFlight : JoinInsert(r)
    \/ \E r \in InFlight : JoinCount(r)
    \/ \E b \in Users : ScenarioLeave(b)
    \/ \E a \in Users : ScenarioOwnerLeave(a)
    \/ \E r \in InFlight : LeaveCount(r)
    \/ \E a \in Users : ScenarioPublish(a)
    \/ \E r \in InFlight : PublishInsert(r)
    \/ ScenarioAnonymousRead
    \/ \E b \in Users : ScenarioMemberRead(b)
    \/ \E r \in InFlight : ListQuery(r)

SpecScenario == InitScenario /\ [][NextScenario]_vars

\* Clients that create fanclubs, join them and leave them, one request at a
\* time: each request is sent after the handler of the one before has run
\* all its statements.  Their requests are the last five the server receives.
InitMembers ==
    /\ backend \in Backends
    /\ fanclubs = <<>>
    /\ memberships = EmptyBag
    /\ posts = <<>>
    /\ reqs = EmptyBag
    /\ resp = {}
    /\ started = MaxReqs - 5
    /\ faults = 0
    /\ now = Epoch
    /\ next_payment_date = NoDate

NextMembers ==
    \/ \E u \in Users, name \in BOOLEAN, purpose \in BOOLEAN :
          Quiet /\ CreateFanclub(u, name, purpose)
    \/ \E r \in InFlight : CreateOwnerMembership(r)
    \/ \E u \in Users, f \in FanclubIds : Quiet /\ JoinFanclub(u, f)
    \/ \E r \in InFlight : JoinInsert(r)
    \/ \E r \in InFlight : JoinCount(r)
    \/ \E u \in Users, f \in FanclubIds : Quiet /\ LeaveFanclub(u, f)
    \/ \E r \in InFlight : LeaveCount(r)

SpecMembers == InitMembers /\ [][NextMembers]_vars

\* One client: each request is sent after the answer to the one before, be
\* it while the handler of that one still has statements to run (the sqlite
\* server answers create, join and leave before the last statement).  Its
\* requests are the last five the server receives.
Answered == resp # {} \/ Quiet

InitClient ==
    /\ backend \in Backends
    /\ fanclubs = <<>>
    /\ memberships = EmptyBag
    /\ posts = <<>>
    /\ reqs = EmptyBag
    /\ resp = {}
    /\ started = MaxReqs - 5
    /\ faults = 0
    /\ now = Epoch
    /\ next_payment_date = NoDate

NextClient ==
    \/ \E u \in Users : Answered /\ CreateFanclub(u, TRUE, TRUE)
    \/ \E r \in InFlight : CreateOwnerMembership(r)
    \/ \E u \in Users, f \in FanclubIds : Answered /\ JoinFanclub(u, f)
    \/ \E r \in InFlight : JoinInsert(r)
    \/ \E r \in InFlight : JoinCount(r)
    \/ \E u \in Users, f \in FanclubIds : Answered /\ LeaveFanclub(u, f)
    \/ \E r \in InFlight : LeaveCount(r)
    \/ \E u \in Users, f \in FanclubIds, title \in BOOLEAN, content \in BOOLEAN :
          Answered /\ PublishPost(u, f, title, content)
    \/ \E r \in InFlight : PublishInsert(r)
    \/ \E f \in FanclubIds, q \in Users \cup {Anonymous} : Answered /\ ListPosts(f, q)
    \/ \E f \in FanclubIds, q \in Users : Answered /\ ListMembership(f, q)
    \/ \E r \in InFlight : ListQuery(r)
    \/ Answered /\ GetFanclubs
    \/ \E q \in BOOLEAN, matching \in SUBSET FanclubIds : Answered /\ SearchFanclubs(q, matching)
    \/ \E f \in FanclubIds : Answered /\ GetFanclub(f)

SpecClient == InitClient /\ [][NextClient]_vars

\* Clients that create fanclubs, publish in them and read: each request is
\* sent after the answer to the one before.
NextReads ==
    \/ \E u \in Users : Answered /\ CreateFanclub(u, TRUE, TRUE)
    \/ \E r \in InFlight : CreateOwnerMembership(r)
    \/ \E u \in Users, f \in FanclubIds, title \in BOOLEAN, content \in BOOLEAN :
          Answered /\ PublishPost(u, f, title, content)
    \/ \E r \in InFlight : PublishInsert(r)
    \/ \E f \in FanclubIds, q \in Users \cup {Anonymous} : Answered /\ ListPosts(f, q)
    \/ \E f \in FanclubIds, q \in Users : Answered /\ ListMembership(f, q)
    \/ \E r \in InFlight : ListQuery(r)
    \/ Answered /\ GetFanclubs
    \/ \E q \in BOOLEAN, matching \in SUBSET FanclubIds : Answered /\ SearchFanclubs(q, matching)
    \/ \E f \in FanclubIds : Answered /\ GetFanclub(f)

SpecReads == Init /\ [][NextReads]_vars

\* ------------------------------------------------------ authenticateToken
\* The token of a request: none, or one that names a user id and that
\* jwt.verify accepts (signed by the server with JWT_SECRET and not expired)
\* or refuses.
NoToken == [id |-> Anonymous, valid |-> FALSE]

Tokens == {NoToken} \cup [id : Users, valid : BOOLEAN]

Authentication(outcome, u) == [outcome |-> outcome, user |-> u]

\* the same middleware reading the payload without verifying it
decodeToken(token) ==
    IF token = NoToken
    THEN Authentication("Unauthorized", Anonymous)
    ELSE Authentication("next", token.id)

\* if (!token) 401; jwt.verify: if (err) 403; req.user = user; next()
authenticateToken(token) ==
    IF token = NoToken
    THEN Authentication("Unauthorized", Anonymous)
    ELSE IF ~token.valid
    THEN Authentication("InvalidToken", Anonymous)
    ELSE Authentication("next", token.id)

\* a route behind authenticateToken: the middleware answers, or the handler
\* runs with req.user.id (a, b: name and purpose of a create, title and
\* content of a publish)
Authenticated(kind, token, f, a, b) ==
    LET auth == authenticateToken(token) IN
    IF auth.outcome # "next"
    THEN /\ Receive
         /\ UNCHANGED <<backend, db, reqs, faults>>
         /\ resp' = {Response(Request(kind, Anonymous, f, "done"), auth.outcome, <<>>)}
    ELSE CASE kind = "create" -> CreateFanclub(auth.user, a, b)
           [] kind = "join" -> JoinFanclub(auth.user, f)
           [] kind = "leave" -> LeaveFanclub(auth.user, f)
           [] kind = "publish" -> PublishPost(auth.user, f, a, b)

\* Clients that send requests with and without tokens, each request with
\* the fields its route requires and after the answer to the one before.
\* Their requests are the last three the server receives.
InitTokens ==
    /\ backend \in Backends
    /\ fanclubs = <<>>
    /\ memberships = EmptyBag
    /\ posts = <<>>
    /\ reqs = EmptyBag
    /\ resp = {}
    /\ started = MaxReqs - 3
    /\ faults = 0
    /\ now = Epoch
    /\ next_payment_date = NoDate

NextTokens ==
    \/ \E token \in Tokens :
          Answered /\ Authenticated("create", token, Len(fanclubs) + 1, TRUE, TRUE)
    \/ \E r \in InFlight : CreateOwnerMembership(r)
    \/ \E token \in Tokens, f \in FanclubIds :
          Answered /\ Authenticated("join", token, f, TRUE, TRUE)
    \/ \E r \in InFlight : JoinInsert(r)
    \/ \E r \in InFlight : JoinCount(r)
    \/ \E token \in Tokens, f \in FanclubIds :
          Answered /\ Authenticated("leave", token, f, TRUE, TRUE)
    \/ \E r \in InFlight : LeaveCount(r)
    \/ \E token \in Tokens, f \in FanclubIds :
          Answered /\ Authenticated("publish", token, f, TRUE, TRUE)
    \/ \E r \in InFlight : PublishInsert(r)

SpecTokens == InitTokens /\ [][NextTokens]_vars

\* The listing run on every posts table that user 1, having created
\* ListedFanclubs fanclubs, can have filled with up to ListedPosts posts: one
\* read of the posts of one fanclub.
RECURSIVE PostTables(_)
PostTables(n) ==
    IF n = 0 THEN {<<>>}
    ELSE LET shorter == PostTables(n - 1)
         IN  shorter \cup
             UNION {{Append(ps, PostRow(f, 1, v, t)) :
                        f \in 1..ListedFanclubs, v \in Visibilities, t \in CURRENT_TIMESTAMP(ps)} :
                    ps \in {x \in shorter : Len(x) = n - 1}}

InitListing ==
    /\ backend \in Backends
    /\ fanclubs = [f \in 1..ListedFanclubs |-> FanclubRow(1)]
    /\ memberships = SetToBag({MembershipRow(1, f, TRUE) : f \in 1..ListedFanclubs})
    /\ posts \in PostTables(ListedPosts)
    /\ reqs = EmptyBag
    /\ resp = {}
    /\ started = MaxReqs - 1
    /\ faults = 0
    /\ now = Epoch
    /\ next_payment_date = NoDate

NextListing ==
    \/ \E f \in 1..ListedFanclubs, q \in Users \cup {Anonymous} : ListPosts(f, q)
    \/ \E f \in 1..ListedFanclubs, q \in Users : ListMembership(f, q)
    \/ \E r \in InFlight : ListQuery(r)

SpecListing == InitListing /\ [][NextListing]_vars

\* The date a join computes for its row, for every day of the modelled
\* years: const nextPaymentDate = new Date();
\* nextPaymentDate.setMonth(nextPaymentDate.getMonth() + 1)
InitDates ==
    /\ backend \in Backends
    /\ fanclubs = <<>>
    /\ memberships = EmptyBag
    /\ posts = <<>>
    /\ reqs = EmptyBag
    /\ resp = {}
    /\ started = 0
    /\ faults = 0
    /\ now \in Dates
    /\ next_payment_date = NoDate

nextPaymentDate ==
    /\ next_payment_date = NoDate
    /\ next_payment_date' = setMonth(now, getMonth(now) + 1)
    /\ UNCHANGED <<backend, db, reqs, resp, started, faults, now>>

SpecDates == InitDates /\ [][nextPaymentDate]_vars

\* ================================================================ claims
Existing == 1..Len(fanclubs)

PostIds(result) == {result[i] : i \in 1..Len(result)}

\* C1: in every reachable state each fanclub's member_count equals the
\* number of Membership rows that reference the fanclub.
C1_CountEqualsRows ==
    \A f \in Existing : fanclubs[f].member_count = MemberRows(memberships, f)

\* C2: a post listing holds every public post of the fanclub and no post of
\* another fanclub; it holds a members-only post only if the viewer held a
\* Membership in the fanclub at some moment of the request, and it holds all
\* of them if the viewer held one during the whole request.
C2_ListVisibility ==
    \A x \in resp : x.req.kind = "list" =>
        LET f == x.req.fanclub_id
            result == PostIds(x.posts)
            OfFanclub == {i \in 1..Len(posts) : posts[i].fanclub_id = f}
            Public == {i \in OfFanclub : posts[i].visibility = "public"}
        IN  /\ Public \subseteq result
            /\ result \subseteq OfFanclub
            /\ result # Public =>
                   x.req.query_user_id # Anonymous /\ x.req.everMember
            /\ x.req.query_user_id # Anonymous /\ x.req.alwaysMember =>
                   result = OfFanclub

\* a viewer who holds a Membership in the fanclub is sent a members-only
\* post of it
C2_Witness ==
    \E x \in resp :
        /\ x.req.kind = "list"
        /\ x.req.query_user_id # Anonymous
        /\ x.req.alwaysMember
        /\ \E i \in PostIds(x.posts) : posts[i].visibility = "members"

\* C3: the listing decides from the verified identity only, whatever
\* user_id the request carries: a requester without a verified identity that
\* holds a Membership in the fanclub is never sent a members-only post.
C3_VerifiedIdentityOnly ==
    \A x \in resp : x.req.kind = "list" =>
        \A i \in PostIds(x.posts) :
            posts[i].visibility = "members" =>
                x.req.user # Anonymous /\ Holds(memberships, x.req.user, x.req.fanclub_id)

\* C4: of two joins of the same pair, made one after the other or
\* concurrently, the one that does not succeed fails with AlreadyMember and
\* with no other error; AlreadyMember is answered only when the pair has a
\* Membership.
C4_SecondJoinAlreadyMember ==
    \A x \in resp :
        x.req.kind = "join" /\ FanclubExists(fanclubs, x.req.fanclub_id) =>
            /\ x.req.rival => x.outcome \in {"ok", "AlreadyMember"}
            /\ x.outcome = "AlreadyMember" =>
                   Holds(memberships, x.req.user, x.req.fanclub_id)

\* C5: there is at most one Membership row per (user, fanclub) pair.
C5_AtMostOneMembership ==
    \A u \in Users, f \in FanclubIds : Rows(memberships, u, f) <= 1

\* the UNIQUE constraint has rejected the INSERT of a join that raced
\* another join of the same pair
C5_Witness ==
    \E x \in resp :
        /\ x.req.kind = "join"
        /\ x.outcome = "StorageError"
        /\ FanclubExists(fanclubs, x.req.fanclub_id)
        /\ Rows(memberships, x.req.user, x.req.fanclub_id) = 1

\* C6: every existing fanclub has exactly one Membership row with
\* is_owner = TRUE.
C6_ExactlyOneOwner ==
    \A f \in Existing :
        Cardinality({u \in Users : HoldsOwner(memberships, u, f)}) = 1
        /\ \A u \in Users : CopiesIn(MembershipRow(u, f, TRUE), memberships) <= 1

\* C7: a leave called by the owner of the fanclub is answered Forbidden,
\* and no step of it changes the memberships or a member_count.
C7_OwnerLeaveForbidden ==
    [][ /\ \A x \in resp' :
               x.req.kind = "leave"
               /\ HoldsOwner(memberships', x.req.user, x.req.fanclub_id)
               => x.outcome = "Forbidden"
        /\ \A r \in InFlight :
               r.kind = "leave"
               /\ HoldsOwner(memberships, r.user, r.fanclub_id)
               /\ LeaveCount(r)
               => fanclubs' = fanclubs /\ memberships' = memberships
      ]_vars

\* C8: joins made concurrently by distinct users who are not members all
\* succeed, and once they have completed member_count is 1 plus the number
\* of joins made.
C8_ConcurrentJoinsCounted ==
    /\ \A x \in resp : x.req.kind = "join" => x.outcome = "ok"
    /\ \A f \in Existing :
           (\A r \in InFlight : ~(r.kind = "join" /\ r.fanclub_id = f)) =>
               fanclubs[f].member_count
                 = 1 + Cardinality({u \in Users : CopiesIn(MembershipRow(u, f, FALSE), memberships) > 0})

\* two joins of one fanclub have both inserted their row and not yet
\* updated the count
C8_WitnessConcurrent ==
    \E r1 \in InFlight, r2 \in InFlight :
        /\ r1.kind = "join" /\ r2.kind = "join"
        /\ r1.pc = "count" /\ r2.pc = "count"
        /\ r1.fanclub_id = r2.fanclub_id
        /\ r1.user # r2.user

\* C9 as stated: a publish succeeds only for the holder of the owner
\* Membership, and for every other user it is rejected with Forbidden and
\* creates no post.
C9_OnlyOwnerPublishes ==
    [][ \A x \in resp' : x.req.kind = "publish" =>
            IF HoldsOwner(memberships', x.req.user, x.req.fanclub_id)
            THEN TRUE
            ELSE x.outcome = "Forbidden" /\ posts' = posts
      ]_vars

\* C9 amended: a publish succeeds only for the holder of the owner
\* Membership, whose publish passes the owner check; a publish that carries
\* title and content is rejected with Forbidden for every other user; one
\* without title or content is rejected with ValidationError whoever sends
\* it; a successful publish creates its post and no other publish creates one.
C9_OnlyOwnerPublishesWellFormed ==
    [][ \A x \in resp' : x.req.kind = "publish" =>
            LET owner == HoldsOwner(memberships', x.req.user, x.req.fanclub_id) IN
            /\ x.outcome = "ok" => x.req.wellformed /\ owner
            /\ x.outcome = "ValidationError" <=> ~x.req.wellformed
            /\ x.outcome = "Forbidden" <=> x.req.wellformed /\ ~owner
            /\ x.req.wellformed /\ owner /\ ~x.req.faulted => x.outcome = "ok"
            /\ x.outcome = "ok" =>
                   \E t \in CURRENT_TIMESTAMP(posts) :
                       posts' = Append(posts, PostRow(x.req.fanclub_id, x.req.user,
                                                      x.req.visibility, t))
            /\ x.outcome # "ok" => posts' = posts
      ]_vars

\* a member who is not the owner has been refused
C9_Witness ==
    \E x \in resp :
        /\ x.req.kind = "publish"
        /\ x.outcome = "Forbidden"
        /\ Holds(memberships, x.req.user, x.req.fanclub_id)

\* C10: when create answers success the fanclub row and the owner
\* Membership of the creator both exist, and no state shows a fanclub whose
\* owner holds no owner Membership.
C10_CreateAllOrNothing ==
    /\ \A x \in resp : x.req.kind = "create" /\ x.outcome = "ok" =>
           /\ FanclubExists(fanclubs, x.req.fanclub_id)
           /\ HoldsOwner(memberships, x.req.user, x.req.fanclub_id)
    /\ \A f \in Existing : HoldsOwner(memberships, fanclubs[f].owner_id, f)

\* C11: a create without name or without purpose is answered
\* ValidationError, and the step that answers it changes no fanclub row, no
\* Membership row and no member_count.
C11_CreateValidation ==
    [][ \A x \in resp' : x.req.kind = "create" /\ ~x.req.wellformed =>
            /\ x.outcome = "ValidationError"
            /\ fanclubs' = fanclubs
            /\ memberships' = memberships
            /\ reqs' = reqs
      ]_vars

\* a create without name or purpose has been refused by a server that
\* holds a fanclub and a Membership
C11_Witness ==
    \E x \in resp :
        /\ x.req.kind = "create"
        /\ ~x.req.wellformed
        /\ x.outcome = "ValidationError"
        /\ Len(fanclubs) > 0
        /\ memberships # EmptyBag

\* C12: a join of a fanclub identifier that does not exist is answered
\* NotFound, and no Membership row references a fanclub that does not exist.
C12_JoinNotFound ==
    /\ \A x \in resp :
           x.req.kind = "join" /\ ~FanclubExists(fanclubs, x.req.fanclub_id) =>
               x.outcome = "NotFound"
    /\ \A u \in Users, f \in FanclubIds :
           Holds(memberships, u, f) => FanclubExists(fanclubs, f)

\* C13: a leave by a user who holds no Membership in the fanclub is answered
\* Forbidden, changes no Membership row and starts no count update; a leave
\* by the holder of a non-owner Membership deletes exactly that row, and the
\* count update of a leave takes exactly 1 from the fanclub's member_count.
C13_LeaveOutcomes ==
    [][ /\ \A u \in Users, f \in FanclubIds : LeaveFanclub(u, f) =>
               IF ~Holds(memberships, u, f)
               THEN /\ \E x \in resp' :
                          /\ x.req.kind = "leave"
                          /\ x.req.user = u /\ x.req.fanclub_id = f
                          /\ x.outcome = "Forbidden"
                    /\ memberships' = memberships
                    /\ reqs' = reqs
               ELSE IF ~HoldsOwner(memberships, u, f)
               THEN memberships' = memberships (-) SetToBag({MembershipRow(u, f, FALSE)})
               ELSE TRUE
        /\ \A r \in InFlight :
               r.kind = "leave" /\ LeaveCount(r) /\ FanclubExists(fanclubs, r.fanclub_id) =>
                   fanclubs' = [fanclubs EXCEPT ![r.fanclub_id].member_count = @ - 1]
      ]_vars

\* C14: when the member_count update of a join or of a leave of an existing
\* fanclub fails after the Membership row was inserted or deleted, the step
\* undoes the change of the row: the joiner holds no Membership after it, the leaver holds theirs
\* again.
C14_CountFailureRollsBack ==
    [][ \A r \in InFlight :
            faults' < faults /\ FanclubExists(fanclubs, r.fanclub_id) =>
            /\ r.kind = "join" /\ JoinCount(r) =>
                   ~Holds(memberships', r.user, r.fanclub_id)
            /\ r.kind = "leave" /\ r.changes > 0 /\ LeaveCount(r) =>
                   Holds(memberships', r.user, r.fanclub_id)
      ]_vars

\* C15: a step of create, join or leave whose statement fails in the storage
\* layer answers its caller with a failure, and no create, join or leave
\* answers success after one of its statements failed.
C15_FailuresReported ==
    [][ /\ faults' < faults =>
               \E x \in resp' : x.outcome = "StorageError"
        /\ \A x \in resp' :
               x.req.kind \in {"create", "join", "leave"} /\ x.req.faulted =>
                   x.outcome # "ok"
      ]_vars

\* C16: a join or leave that ran while another join or leave of the same
\* pair was in flight, on an existing fanclub of another user, is answered with an outcome
\* that a run of the operations one after the other produces (success,
\* AlreadyMember or Forbidden) and leaves at most one Membership for the
\* pair; and when such an operation ends with no request of the fanclub left
\* in flight, member_count equals the number of Membership rows.
C16_SamePairLinearizable ==
    [][ /\ \A x \in resp' :
               /\ x.req.kind \in {"join", "leave"}
               /\ x.req.contended
               /\ FanclubExists(fanclubs, x.req.fanclub_id)
               /\ fanclubs[x.req.fanclub_id].owner_id # x.req.user
               => /\ x.outcome \in {"ok", "AlreadyMember", "Forbidden"}
                  /\ Rows(memberships', x.req.user, x.req.fanclub_id) <= 1
        /\ \A r \in InFlight :
               /\ r.kind \in {"join", "leave"}
               /\ r.contended
               /\ FanclubExists(fanclubs, r.fanclub_id)
               /\ fanclubs[r.fanclub_id].owner_id # r.user
               /\ reqs' = Remove(reqs, r)
               /\ \A r2 \in BagToSet(reqs') : r2.fanclub_id # r.fanclub_id
               => fanclubs'[r.fanclub_id].member_count = MemberRows(memberships', r.fanclub_id)
      ]_vars

\* C17: the count update of a successful join that ran while a join or leave
\* of another user and the same fanclub was in flight adds exactly 1 to the
\* member_count of the fanclub, and the count update of such a leave takes
\* exactly 1 from it, so that the final count is the initial count plus the
\* successful joins minus the successful leaves.
C17_CountReflectsEveryOperation ==
    [][ \A r \in InFlight :
            r.overlapped /\ FanclubExists(fanclubs, r.fanclub_id) =>
            /\ r.kind = "join" /\ JoinCount(r) =>
                   fanclubs'[r.fanclub_id].member_count
                     = fanclubs[r.fanclub_id].member_count + 1
            /\ r.kind = "leave" /\ LeaveCount(r) =>
                   fanclubs'[r.fanclub_id].member_count
                     = fanclubs[r.fanclub_id].member_count - 1
      ]_vars

\* C18: in the membership scenario, after the create member_count is 1 and
\* the creator holds the owner Membership; after the join member_count is 2;
\* after the leave of the joiner it is 1; the leave of the creator is
\* answered Forbidden and member_count is still 1.
C18_Scenario ==
    Quiet /\ posts = <<>> /\ FanclubExists(fanclubs, 1) =>
        /\ Step = 1 =>
               /\ fanclubs[1].member_count = 1
               /\ HoldsOwner(memberships, fanclubs[1].owner_id, 1)
        /\ Step = 2 => fanclubs[1].member_count = 2
        /\ Step = 3 => fanclubs[1].member_count = 1
        /\ Step = 4 =>
               /\ fanclubs[1].member_count = 1
               /\ \A x \in resp : x.req.kind = "leave" => x.outcome = "Forbidden"

\* C19: in the visibility scenario, the read without user_id is not sent the
\* members-only post the creator published, and the read of the joiner,
\* made after the join was answered, is sent it.
C19_ScenarioVisibility ==
    \A x \in resp : x.req.kind = "list" =>
        /\ x.req.query_user_id = Anonymous =>
               \A i \in PostIds(x.posts) : posts[i].visibility # "members"
        /\ x.req.query_user_id # Anonymous =>
               \A i \in 1..Len(posts) :
                   posts[i].fanclub_id = x.req.fanclub_id => i \in PostIds(x.posts)

\* the joiner, who is not the creator, has been sent the members-only post
C19_Witness ==
    \E x \in resp :
        /\ x.req.kind = "list"
        /\ x.req.query_user_id # Anonymous
        /\ ~HoldsOwner(memberships, x.req.query_user_id, x.req.fanclub_id)
        /\ \E i \in PostIds(x.posts) : posts[i].visibility = "members"

\* C20: the member_count of a fanclub is negative in no reachable state: no
\* decrement of a leave takes it below 0.
C20_NeverNegative ==
    \A f \in Existing : fanclubs[f].member_count >= 0

\* C22: a read of the posts received after the viewer's leave of the
\* fanclub was answered with success is sent no members-only post, and a
\* read is sent a post whose visibility is members only if the viewer held a
\* Membership in the fanclub while the read was made (no decision of an
\* earlier read is kept).
C22_NoCachedAuthorization ==
    \A x \in resp : x.req.kind = "list" =>
        LET MembersOnly == {i \in PostIds(x.posts) : posts[i].visibility = "members"}
        IN  /\ x.req.afterLeave => MembersOnly = {}
            /\ MembersOnly # {} => x.req.everMember

\* the users whose publish in f passes the owner check
CanPublish(ms, f) == {u \in Users : IsOwner(ms, u, f)}

\* a step of a join or of a leave
JoinOrLeaveStep ==
    \/ \E u \in Users, f \in FanclubIds : JoinFanclub(u, f) \/ LeaveFanclub(u, f)
    \/ \E r \in InFlight : JoinInsert(r) \/ JoinCount(r) \/ LeaveCount(r)

ReadStep ==
    \/ GetFanclubs
    \/ \E q \in BOOLEAN, matching \in SUBSET FanclubIds : SearchFanclubs(q, matching)
    \/ \E f \in FanclubIds : GetFanclub(f)
    \/ \E f \in FanclubIds, q \in Users \cup {Anonymous} : ListPosts(f, q) \/ ListMembership(f, q)
    \/ \E r \in InFlight : ListQuery(r)
    \/ \E u \in Users, f \in FanclubIds, title \in BOOLEAN, content \in BOOLEAN :
          PublishPost(u, f, title, content)

\* C24: no step of a read operation and no step that rejects a publish
\* changes a row of the fanclubs, memberships or posts tables or a
\* member_count.
C24_ReadsChangeNothing ==
    [][ /\ ReadStep => db' = db
        /\ \A x \in resp' : x.req.kind = "publish" /\ x.outcome # "ok" => db' = db
      ]_vars

\* a publish has been refused by a server that holds a fanclub, a
\* Membership and a post
C24_Witness ==
    \E x \in resp :
        /\ x.req.kind = "publish"
        /\ x.outcome = "Forbidden"
        /\ Len(fanclubs) > 0 /\ Len(posts) > 0 /\ memberships # EmptyBag

\* The handler of a join and of a leave run from its first statement to its
\* last with no other request in between: the tables it leaves and the
\* answer it sends.
Tables(ms, fcs) == [memberships |-> ms, fanclubs |-> fcs]

Ran(t, outcome) == [tables |-> t, outcome |-> outcome]

JoinHandler(b, t, u, f) ==
    IF IsMember(t.memberships, u, f)
    THEN Ran(t, "AlreadyMember")
    ELSE IF InsertRejected(b, t.fanclubs, t.memberships, u, f)
    THEN Ran(t, "StorageError")
    ELSE Ran(Tables(InsertMembership(t.memberships, u, f, FALSE),
                    increment_member_count(t.fanclubs, f)), "ok")

LeaveHandler(b, t, u, f) ==
    IF b = "sqlite" /\ DeleteChanges(t.memberships, u, f) = 0
    THEN Ran(t, "Forbidden")
    ELSE Ran(Tables(DeleteMembership(t.memberships, u, f),
                    decrement_member_count(b, t.fanclubs, f)), "ok")

Operations == [kind : {"join", "leave"}, user : Users, fanclub_id : FanclubIds]

Handler(b, t, op) ==
    IF op.kind = "join"
    THEN JoinHandler(b, t, op.user, op.fanclub_id)
    ELSE LeaveHandler(b, t, op.user, op.fanclub_id)

\* C25: from every state the server reaches, a join or leave and a join or
\* leave of a different (user, fanclub) pair, run one after the other in
\* either order, are answered the same way and leave the same Membership
\* rows and the same member_count values.
C25_DifferentPairsIndependent ==
    \A op1 \in Operations, op2 \in Operations :
        op1.user # op2.user \/ op1.fanclub_id # op2.fanclub_id =>
            LET t == Tables(memberships, fanclubs)
                first1 == Handler(backend, t, op1)
                then2 == Handler(backend, first1.tables, op2)
                first2 == Handler(backend, t, op2)
                then1 == Handler(backend, first2.tables, op1)
            IN  /\ first1.outcome = then1.outcome
                /\ first2.outcome = then2.outcome
                /\ then2.tables = then1.tables

\* create has answered success for fanclub f to user u: the sqlite server
\* answers in the step that inserts the fanclub row, the supabase server when
\* the handler has run its last statement
CreateAnswered(u, f) ==
    /\ FanclubExists(fanclubs, f)
    /\ fanclubs[f].owner_id = u
    /\ backend = "supabase" =>
           \A r \in InFlight : ~(r.kind = "create" /\ r.fanclub_id = f)

\* C26: a publish with title and content that the creator of a fanclub sends
\* after create has answered success passes the owner check, and its INSERT,
\* unless it fails in the storage layer, creates the post.
C26_CreatorPublishesAfterCreate ==
    [][ /\ \A u \in Users, f \in FanclubIds :
               CreateAnswered(u, f) /\ PublishPost(u, f, TRUE, TRUE) =>
                   \A x \in resp' : x.outcome # "Forbidden"
        /\ \A r \in InFlight :
               r.kind = "publish" /\ PublishInsert(r) /\ faults' = faults =>
                   \E t \in CURRENT_TIMESTAMP(posts) :
                       posts' = Append(posts, PostRow(r.fanclub_id, r.user, r.visibility, t))
      ]_vars

\* C27: the sqlite server and the supabase server are equivalent on join
\* and leave, the operations whose statements differ between them: from
\* every state of the tables a server reaches, the two handlers of a join or
\* leave answer the call the same way and leave the same Membership rows and
\* member_count values.
C27_ServersEquivalent ==
    \A op \in Operations :
        Handler("sqlite", Tables(memberships, fanclubs), op)
          = Handler("supabase", Tables(memberships, fanclubs), op)

\* the requests in flight by route, user and fanclub
Callers(rs) == BagOfAll(LAMBDA r : <<r.kind, r.user, r.fanclub_id>>, rs)

\* the users whose Membership rows differ between two states of the table
Touched(ms1, ms2) ==
    {row.user_id : row \in {x \in BagToSet(ms1) \cup BagToSet(ms2) :
                                  CopiesIn(x, ms1) # CopiesIn(x, ms2)}}

\* C28: a create, join, leave or publish with no token or with a token that
\* does not verify is answered by the middleware (Unauthorized, InvalidToken)
\* and changes no row and starts no handler; with a token that verifies, the
\* handler runs as the user id of the token: the request it starts or
\* answers, the fanclub row it inserts and the Membership rows it changes are
\* of that user, also in the later statements of the handler.
C28_TokenRequired ==
    [][ /\ started' # started =>
           \A kind \in {"create", "join", "leave", "publish"}, token \in Tokens :
           \A f \in (IF kind = "create" THEN {Len(fanclubs) + 1} ELSE FanclubIds) :
               Authenticated(kind, token, f, TRUE, TRUE) =>
                   IF token = NoToken \/ ~token.valid
                   THEN /\ db' = db /\ reqs' = reqs
                        /\ resp' # {}
                        /\ \A x \in resp' : x.outcome \in {"Unauthorized", "InvalidToken"}
                   ELSE /\ \A x \in resp' : x.req.kind = kind /\ x.req.user = token.id
                        /\ Callers(reqs') \sqsubseteq
                               (Callers(reqs) (+) SetToBag({<<kind, token.id, f>>}))
                        /\ fanclubs' # fanclubs =>
                               fanclubs' = Append(fanclubs, FanclubRow(token.id))
                        /\ Touched(memberships, memberships') \subseteq {token.id}
        /\ \A r \in InFlight :
               CreateOwnerMembership(r) \/ JoinInsert(r) =>
                   Touched(memberships, memberships') \subseteq {r.user}
      ]_vars

\* a join sent with a token that does not verify has been refused by a
\* server that holds a fanclub and a Membership
C28_Witness ==
    \E x \in resp :
        /\ x.req.kind = "join"
        /\ x.outcome = "InvalidToken"
        /\ Len(fanclubs) > 0
        /\ memberships # EmptyBag

C30_ListingOrdered ==
    \A x \in resp : x.req.kind = "list" =>
        /\ \A i \in 1..Len(x.posts) :
               /\ x.posts[i] \in 1..Len(posts)
               /\ posts[x.posts[i]].fanclub_id = x.req.fanclub_id
        /\ \A i, j \in 1..Len(x.posts) :
               i < j =>
                   /\ x.posts[i] # x.posts[j]
                   /\ posts[x.posts[i]].published_at >= posts[x.posts[j]].published_at

\* a listing holds two posts of different published_at while the table
\* holds a post of another fanclub
C30_Witness ==
    \E x \in resp :
        /\ x.req.kind = "list"
        /\ Len(x.posts) >= 2
        /\ posts[x.posts[1]].published_at > posts[x.posts[2]].published_at
        /\ \E i \in 1..Len(posts) : posts[i].fanclub_id # x.req.fanclub_id

\* the month after the month of t, and the year it lies in
TargetYear(t) == IF t.month = 11 THEN t.year + 1 ELSE t.year

TargetMonth(t) == (t.month + 1) % 12

Min(a, b) == IF a < b THEN a ELSE b

\* C21: the next_payment_date a join computes is the join date plus one
\* calendar month, the day of the month clamped to the last day of the
\* target month; it never falls in the month after the target month.
C21_NextPaymentDateClamped ==
    next_payment_date # NoDate =>
        /\ next_payment_date.year = TargetYear(now)
        /\ next_payment_date.month = TargetMonth(now)
        /\ next_payment_date.date
             = Min(now.date, DaysInMonth(TargetYear(now), TargetMonth(now)))
====
